---- MODULE Spec2Model ----
(***************************************************************************)
(* obj2brs: the greedy run-merging of a voxel volume into bricks           *)
(* (src/src/simplify.rs) and the conversion worker orchestration of the    *)
(* UI (src/src/main.rs).                                                    *)
(*                                                                         *)
(* The octree (octree.rs), the color conversions (color.rs) and the        *)
(* palette (palette.rs) are not among the sources; they are modelled from  *)
(* the specification and from the way simplify.rs uses them.               *)
(***************************************************************************)
EXTENDS Integers, Sequences, FiniteSets, TLC

VARIABLES
    size,       \* octree.size: the volume is a cube of side 2^size
    octree,     \* the Leaf cells of the volume: a function cell -> color
    opts,       \* the Obj2Brs fields the mergers read
    max_merge,  \* the merge budget handed to simplify_lossy / simplify_lossless
    pc,         \* "loop" while the merger's loop runs, "returned" afterwards
    bricks,     \* save_data.bricks
    regions,    \* history: the locals of every pass at the time its brick is pushed
    vol0,       \* history: the Leaf cells before merging started
    input_file,                        \* what self.input_file_path names on disk
    missing_resources_dialog,          \* TRUE for Some(message), FALSE for None
    pending_conversion_skip_textures,
    conversion_in_progress,
    conversion_done_receiver,          \* 0 for None, w for Some(rx of worker w)
    workers,                           \* the conversion threads spawned so far
    chan,                              \* the completion channel of each worker
    job,             \* the inputs of one perform_conversion call
    ppc,             \* the position of that call
    mat_id,          \* the loop variable of the split-by-material loop
    volumes,         \* the material filters of the octrees alive
    material_grids,  \* Vec<(Entity, Vec<Brick>)>
    events,          \* history: the steps the call has taken
    result,          \* "none", "Ok" or the ConversionError returned
    material_images, \* the Vec<RgbaImage> load_models_and_materials returned
    messages,        \* Logger.messages: the Vec<String> behind the Mutex
    lock,            \* the thread that holds the Mutex, "free" when none does
    lpc,             \* the position of each thread in log / get_messages
    logged,          \* history: the log calls each thread has begun
    cloned,          \* the clone get_messages is about to return
    snapshots,       \* history: what get_messages returned, in order
    models,          \* scale_models: mesh.positions of each model, as vertices
    mesh_scale,      \* scale_models: scale
    spc,             \* the position of the scale_models call
    path_receiver,   \* input_file_path_receiver / output_directory_receiver:
                     \* 0 for None, p for Some(rx of picker p)
    pickers,         \* the file-picker threads spawned so far
    pick_chan,       \* the channel of each picker
    paths            \* input_file_path / output_directory

mergeVars == <<size, octree, opts, max_merge, pc, bricks, regions, vol0>>

uiVars == <<input_file, missing_resources_dialog, pending_conversion_skip_textures,
            conversion_in_progress, conversion_done_receiver, workers, chan>>

pipeVars == <<job, ppc, mat_id, volumes, material_grids, events, result,
              material_images>>

logVars == <<messages, lock, lpc, logged, cloned, snapshots>>

meshVars == <<models, mesh_scale, spc>>

pickVars == <<path_receiver, pickers, pick_chan, paths>>

vars == <<mergeVars, uiVars, pipeVars, logVars, meshVars, pickVars>>

----------------------------------------------------------------------------
(* Colors.  A color is one channel level 0..8 standing for an RGBA quad.    *)

\* palette::DEFAULT_PALETTE, three entries.
DEFAULT_PALETTE == <<0, 4, 8>>

\* gamma_correct: a fixed convex curve on the channel, not the identity.
gamma_correct(c) == (c * c) \div 8

\* rgb2hsv / hsv2rgb: HSV lives on a scale twice as fine as RGB.
rgb2hsv(c) == 2 * c
hsv2rgb(h) == h \div 2

\* convert_colorset_to_hsv
convert_colorset_to_hsv(colors) == [i \in 1..Len(colors) |-> rgb2hsv(colors[i])]

Dist(a, b) == IF a < b THEN b - a ELSE a - b

\* match_hsv_to_colorset: the 0-based index of the nearest palette entry,
\* the lowest index on a tie.
match_hsv_to_colorset(colorset, hsv) ==
    (CHOOSE i \in 1..Len(colorset) :
        /\ \A j \in 1..Len(colorset) : Dist(colorset[i], hsv) <= Dist(colorset[j], hsv)
        /\ \A j \in 1..(i - 1) : Dist(colorset[j], hsv) > Dist(colorset[i], hsv)) - 1

\* The sum of s[lo..hi], by halves.
RECURSIVE SumSeq(_, _, _)
SumSeq(s, lo, hi) ==
    IF lo > hi THEN 0
    ELSE IF lo = hi THEN s[lo]
    ELSE SumSeq(s, lo, (lo + hi) \div 2) + SumSeq(s, ((lo + hi) \div 2) + 1, hi)

\* hsv_average: the mean of the colors in HSV space.
hsv_average(colors) ==
    SumSeq([i \in 1..Len(colors) |-> rgb2hsv(colors[i])], 1, Len(colors)) \div Len(colors)

----------------------------------------------------------------------------
(* The voxel volume.                                                        *)

Pow2(n) == 2 ^ n

Cells(n) == {<<x, y, z>> : x \in 0..(n - 1), y \in 0..(n - 1), z \in 0..(n - 1)}

\* TreeBody::Leaf(_) at loc?  A cell that is no Leaf (Empty, or a cell the
\* tree has to create on demand, such as one at coordinate 2^size) is Empty.
IsLeaf(tree, loc) == loc \in DOMAIN tree

\* The octant ordering of the tree: z is the lowest bit, then y, then x.
RECURSIVE MortonKey(_, _, _, _)
MortonKey(x, y, z, n) ==
    IF n = 0 THEN 0
    ELSE (x % 2) * 4 + (y % 2) * 2 + (z % 2)
         + 8 * MortonKey(x \div 2, y \div 2, z \div 2, n - 1)

Key(loc, n) == MortonKey(loc[1], loc[2], loc[3], n)

\* get_any_mut_or_create: the first Leaf in octant order.  Only called on a
\* tree that holds a Leaf; on a tree without one the mergers break.
MinOf(S) == CHOOSE k \in S : \A j \in S : k <= j

CellOfKey(tree, n, k) == CHOOSE c \in DOMAIN tree : Key(c, n) = k

get_any_mut_or_create(tree, n) ==
    CellOfKey(tree, n, MinOf({Key(c, n) : c \in DOMAIN tree}))

HasLeaf(tree) == DOMAIN tree # {}

\* The cells of the box [x,xp) x [y,yp) x [z,zp).
Box(lo, hi) ==
    {<<sx, sy, sz>> : sx \in lo[1]..(hi[1] - 1), sy \in lo[2]..(hi[2] - 1),
                      sz \in lo[3]..(hi[3] - 1)}

\* A clearing that writes Empty to the seed cell only.
ClearSeedOnly(tree, lo, hi) ==
    [c \in (DOMAIN tree) \ {lo} |-> tree[c]]

\* A clearing that is deferred and never applied.
ClearNothing(tree, lo, hi) == tree

\* A clearing that also writes Empty to the slabs next to the box.
ClearBoxAndProbed(tree, lo, hi) ==
    [c \in (DOMAIN tree) \ Box(lo, <<hi[1] + 1, hi[2] + 1, hi[3] + 1>>) |-> tree[c]]

\* "Clear nodes": every cell of the box is written Empty.
ClearBox(tree, lo, hi) ==
    [c \in (DOMAIN tree) \ Box(lo, hi) |-> tree[c]]

----------------------------------------------------------------------------
(* Configuration.                                                           *)

scales(o) ==
    IF o.bricktype = "Microbricks"
    THEN <<o.brick_scale, o.brick_scale, o.brick_scale>>
    ELSE <<5, 5, 2>>

Max(a, b) == IF a >= b THEN a ELSE b

\* A largest scale that is the last component.
max_scale_last(o) == scales(o)[3]

max_scale(o) == Max(Max(scales(o)[1], scales(o)[2]), scales(o)[3])

\* A cap that forgets the division by the scale.
MergeCapUnscaled(o, budget) == budget

\* A cap that lets nothing merge when colors are not matched to the palette.
MergeCapMatched(o, budget) ==
    IF o.match_brickadia_colorset THEN budget \div max_scale(o) ELSE 1

\* let max_merge = max_merge / max_scale;
MergeCap(o, budget) == budget \div max_scale(o)

----------------------------------------------------------------------------
(* simplify_lossy: one pass of the loop.                                    *)

\* A loop "n = 1; while n < cap { if ok(n) { n += 1 } else { break } }" stops
\* at the least n >= 1 with ~(n < cap /\ ok(n)).  No cell at coordinate
\* 2^size is a Leaf, so the loops below stop within 2^size - (seed
\* coordinate) steps.
\* The cells of a slab in the order the loops probe them.
SlabY(x, yp, z, zp) == [i \in 1..(zp - z) |-> <<x, yp, z + i - 1>>]

SlabX(xp, y, yp, z, zp) ==
    [i \in 1..((yp - y) * (zp - z)) |->
        <<xp, y + ((i - 1) \div (zp - z)), z + ((i - 1) % (zp - z))>>]

\* for ... { Leaf => (push), _ => { pass = false; break } }
AllLeaf(tree, slab) == \A i \in 1..Len(slab) : IsLeaf(tree, slab[i])

\* The colors the probe of one slab pushes: those of the Leaf cells met
\* before the first cell that is no Leaf (which breaks), all if there is none.
ProbedColors(tree, slab) ==
    LET k == MinOf({j \in 0..Len(slab) : j = Len(slab) \/ ~IsLeaf(tree, slab[j + 1])})
    IN  [i \in 1..k |-> tree[slab[i]]]

\* while zp - z < max_merge { Leaf => { push; zp += 1 }, _ => break }
LossyGrowZ(tree, x, y, z, cap, limit) ==
    z + MinOf({n \in 1..limit : ~(n < cap /\ IsLeaf(tree, <<x, y, z + n>>))})

\* A region that never grows along Y.
LossyGrowYNone(tree, x, y, z, zp, cap, limit) == y + 1

\* while yp - y < max_merge { probe the slab; if !pass break; yp += 1 }
LossyGrowY(tree, x, y, z, zp, cap, limit) ==
    y + MinOf({n \in 1..limit : ~(n < cap /\ AllLeaf(tree, SlabY(x, y + n, z, zp)))})

\* while xp - x < max_merge { probe the slab; if !pass break; xp += 1 }
LossyGrowX(tree, x, y, z, yp, zp, cap, limit) ==
    x + MinOf({n \in 1..limit : ~(n < cap /\ AllLeaf(tree, SlabX(x + n, y, yp, z, zp)))})

\* colors: the seed and the run along Z, then what each slab probe pushed, in
\* the order of the probes.  The Z loop pushes nothing when it breaks; a loop
\* left because the cap was reached probed no slab at its bound.
LossyColors(tree, x, y, z, xp, yp, zp, cap) ==
    LET zl == zp - z
        yz == (yp - y) * zl
        zcolors == [i \in 1..zl |-> tree[<<x, y, z + i - 1>>]]
        ycolors == [i \in 1..((yp - y - 1) * zl) |->
                       tree[SlabY(x, y + 1 + ((i - 1) \div zl), z, zp)[((i - 1) % zl) + 1]]]
        ybreak == IF yp - y < cap THEN ProbedColors(tree, SlabY(x, yp, z, zp)) ELSE <<>>
        xcolors == [i \in 1..((xp - x - 1) * yz) |->
                       tree[SlabX(x + 1 + ((i - 1) \div yz), y, yp, z, zp)[((i - 1) % yz) + 1]]]
        xbreak == IF xp - x < cap THEN ProbedColors(tree, SlabX(xp, y, yp, z, zp)) ELSE <<>>
    IN  zcolors \o ycolors \o ybreak \o xcolors \o xbreak

\* The cells of a slab a probe hands to get_mut_or_create: those up to the
\* first cell that is no Leaf, that one included.
ProbedCells(tree, slab) ==
    LET k == MinOf({j \in 0..Len(slab) : j = Len(slab) \/ ~IsLeaf(tree, slab[j + 1])})
    IN  {slab[i] : i \in 1..(IF k < Len(slab) THEN k + 1 ELSE k)}

\* Every coordinate a lossy pass hands to get_mut_or_create: the probes of
\* the three loops (a loop left at the cap probes nothing at its bound) and
\* the cells of the clear.
LossyProbes(tree, x, y, z, xp, yp, zp, cap) ==
    {<<x, y, z + n>> : n \in 1..(IF zp - z < cap THEN zp - z ELSE zp - z - 1)}
      \cup UNION {{SlabY(x, y + m, z, zp)[i] : i \in 1..(zp - z)} : m \in 1..(yp - y - 1)}
      \cup (IF yp - y < cap THEN ProbedCells(tree, SlabY(x, yp, z, zp)) ELSE {})
      \cup UNION {{SlabX(x + m, y, yp, z, zp)[i] : i \in 1..((yp - y) * (zp - z))} :
                    m \in 1..(xp - x - 1)}
      \cup (IF xp - x < cap THEN ProbedCells(tree, SlabX(xp, y, yp, z, zp)) ELSE {})
      \cup Box(<<x, y, z>>, <<xp, yp, zp>>)

\* The locals of a lossy pass once the bounds are final.
LossyGrowFrom(tree, seed, n, cap) ==
    LET x == seed[1]
        y == seed[2]
        z == seed[3]
        zp == LossyGrowZ(tree, x, y, z, cap, Pow2(n) - z)
        yp == LossyGrowY(tree, x, y, z, zp, cap, Pow2(n) - y)
        xp == LossyGrowX(tree, x, y, z, yp, zp, cap, Pow2(n) - x)
    IN  [seed |-> seed, hi |-> <<xp, yp, zp>>,
         colors |-> LossyColors(tree, x, y, z, xp, yp, zp, cap),
         probes |-> LossyProbes(tree, x, y, z, xp, yp, zp, cap)]

LossyGrow(tree, n, cap) == LossyGrowFrom(tree, get_any_mut_or_create(tree, n), n, cap)

\* BrickColor of a lossy region.
LossyColor(o, palette, colors) ==
    LET avg_color == hsv_average(colors)
    IN  IF o.match_brickadia_colorset
        THEN [kind |-> "Index",
              val |-> match_hsv_to_colorset(convert_colorset_to_hsv(palette), avg_color)]
        ELSE [kind |-> "Unique", val |-> gamma_correct(hsv2rgb(avg_color))]

----------------------------------------------------------------------------
(* simplify_lossless: one pass of the loop.                                 *)

MatchedIndex(palette, leaf_color) ==
    match_hsv_to_colorset(convert_colorset_to_hsv(palette),
                          rgb2hsv(gamma_correct(leaf_color)))

\* An acceptance test that compares no color.
LosslessAcceptAnyLeaf(tree, palette, loc, matched_color) == IsLeaf(tree, loc)

\* The acceptance test of a probed cell.
LosslessAccept(tree, palette, loc, matched_color) ==
    /\ IsLeaf(tree, loc)
    /\ MatchedIndex(palette, tree[loc]) = matched_color

\* A growth along Z that runs to the cap without probing.
LosslessGrowZBlind(tree, palette, x, y, z, matched_color, len, cap) == z + Max(1, cap)

\* while zp < len && (zp - z) < max_merge { ... }
LosslessGrowZ(tree, palette, x, y, z, matched_color, len, cap) ==
    z + MinOf({n \in 1..(len - z) :
                 ~(/\ z + n < len
                   /\ n < cap
                   /\ LosslessAccept(tree, palette, <<x, y, z + n>>, matched_color))})

\* A slab test that looks at the first cell of the slab only.
LosslessPassFirst(tree, palette, slab, matched_color) ==
    LosslessAccept(tree, palette, slab[1], matched_color)

LosslessPass(tree, palette, slab, matched_color) ==
    \A i \in 1..Len(slab) : LosslessAccept(tree, palette, slab[i], matched_color)

\* A growth along Y that stops at the far face or a rejected slab only.
LosslessGrowYUncapped(tree, palette, x, y, z, zp, matched_color, len, cap) ==
    y + MinOf({n \in 1..(len - y) :
                 ~(/\ y + n < len
                   /\ LosslessPass(tree, palette, SlabY(x, y + n, z, zp), matched_color))})

\* while yp < len && (yp - y) < max_merge { ... }
LosslessGrowY(tree, palette, x, y, z, zp, matched_color, len, cap) ==
    y + MinOf({n \in 1..(len - y) :
                 ~(/\ y + n < len
                   /\ n < cap
                   /\ LosslessPass(tree, palette, SlabY(x, y + n, z, zp), matched_color))})

\* A region that never grows along X.
LosslessGrowXNone(tree, palette, x, y, z, yp, zp, matched_color, len, cap) == x + 1

\* while xp < len && (xp - x) < max_merge { ... }
LosslessGrowX(tree, palette, x, y, z, yp, zp, matched_color, len, cap) ==
    x + MinOf({n \in 1..(len - x) :
                 ~(/\ x + n < len
                   /\ n < cap
                   /\ LosslessPass(tree, palette, SlabX(x + n, y, yp, z, zp), matched_color))})

\* let d = 1 << octree.size; let len = d + 1;
LosslessLen(n) == Pow2(n) + 1

\* The cells of a slab a lossless probe hands to get_mut_or_create: those up
\* to the first cell that is not accepted, that one included.
LosslessProbedCells(tree, palette, slab, matched_color) ==
    LET k == MinOf({j \in 0..Len(slab) :
                       j = Len(slab)
                         \/ ~LosslessAccept(tree, palette, slab[j + 1], matched_color)})
    IN  {slab[i] : i \in 1..(IF k < Len(slab) THEN k + 1 ELSE k)}

\* Every coordinate a lossless pass hands to get_mut_or_create: a loop left
\* at the cap or at the scan bound len probes nothing at its bound.
LosslessProbes(tree, palette, x, y, z, xp, yp, zp, matched_color, len, cap) ==
    {<<x, y, z + n>> :
        n \in 1..(IF zp < len /\ zp - z < cap THEN zp - z ELSE zp - z - 1)}
      \cup UNION {{SlabY(x, y + m, z, zp)[i] : i \in 1..(zp - z)} : m \in 1..(yp - y - 1)}
      \cup (IF yp < len /\ yp - y < cap
            THEN LosslessProbedCells(tree, palette, SlabY(x, yp, z, zp), matched_color)
            ELSE {})
      \cup UNION {{SlabX(x + m, y, yp, z, zp)[i] : i \in 1..((yp - y) * (zp - z))} :
                    m \in 1..(xp - x - 1)}
      \cup (IF xp < len /\ xp - x < cap
            THEN LosslessProbedCells(tree, palette, SlabX(xp, y, yp, z, zp), matched_color)
            ELSE {})
      \cup Box(<<x, y, z>>, <<xp, yp, zp>>)

\* The locals of a lossless pass once the bounds are final.
LosslessGrowFrom(tree, palette, seed, n, cap) ==
    LET x == seed[1]
        y == seed[2]
        z == seed[3]
        len == LosslessLen(n)
        matched_color == MatchedIndex(palette, tree[seed])
        zp == LosslessGrowZ(tree, palette, x, y, z, matched_color, len, cap)
        yp == LosslessGrowY(tree, palette, x, y, z, zp, matched_color, len, cap)
        xp == LosslessGrowX(tree, palette, x, y, z, yp, zp, matched_color, len, cap)
    IN  [seed |-> seed, hi |-> <<xp, yp, zp>>, matched_color |-> matched_color,
         probes |-> LosslessProbes(tree, palette, x, y, z, xp, yp, zp,
                                   matched_color, len, cap)]

LosslessGrow(tree, palette, n, cap) ==
    LosslessGrowFrom(tree, palette, get_any_mut_or_create(tree, n), n, cap)

\* A color that is the palette index whatever the option says.
LosslessColorIndexed(o, matched_color, leaf_color) ==
    [kind |-> "Index", val |-> matched_color]

\* BrickColor of a lossless region.
LosslessColor(o, matched_color, leaf_color) ==
    IF o.match_brickadia_colorset
    THEN [kind |-> "Index", val |-> matched_color]
    ELSE [kind |-> "Unique", val |-> gamma_correct(leaf_color)]

----------------------------------------------------------------------------
(* create_brick                                                             *)

\* A conversion to eight bits.
AsU8(v) == v % 256

\* "as u16"
AsU16(v) == v % 65536

\* "as i32": the positions of the volumes considered stay below 2^31, where
\* the conversion keeps the value.
AsI32(v) == IF v <= 2147483647 THEN v ELSE -1

White == 8

\* A fallback to black instead of white.
brick_color_black(palette, color) ==
    IF color.kind = "Unique" THEN color.val
    ELSE IF color.val < Len(palette) THEN palette[color.val + 1]
    ELSE 0

\* let brick_color = match color { Unique(c) => c, Index(idx) => ... };
brick_color(palette, color) ==
    IF color.kind = "Unique" THEN color.val
    ELSE IF color.val < Len(palette) THEN palette[color.val + 1]
    ELSE White

\* write_brz: let color = match &brick.color { ... } on the save's colors.
write_brz_color(colors, color) ==
    IF color.kind = "Unique" THEN color.val
    ELSE IF color.val < Len(colors) THEN colors[color.val + 1]
    ELSE White

create_brick(o, palette, scale, sz, pos, color) ==
    [asset |-> IF o.bricktype = "Microbricks" THEN "PB_DefaultMicroBrick"
               ELSE IF o.bricktype = "Tiles" THEN "PB_DefaultTile"
               ELSE "PB_DefaultBrick",
     size |-> <<AsU16(scale[1] * sz[1]), AsU16(scale[2] * sz[2]), AsU16(scale[3] * sz[3])>>,
     position |-> <<AsI32(scale[1] * sz[1] + 2 * scale[1] * pos[1]),
                    AsI32(scale[2] * sz[2] + 2 * scale[2] * pos[2]),
                    AsI32(scale[3] * sz[3] + 2 * scale[3] * pos[3])>>,
     color |-> brick_color(palette, color),
     material |-> o.material,
     material_intensity |-> o.material_intensity]

\* A push that hands the extent and the origin over in grid order.
PushBrickGridOrder(list, o, palette, lo, hi, color) ==
    LET width == hi[1] - lo[1]
        height == hi[2] - lo[2]
        depth == hi[3] - lo[3]
    IN  Append(list, create_brick(o, palette, scales(o), <<width, height, depth>>,
                                  <<lo[1], lo[2], lo[3]>>, color))

\* A push that puts the new brick in front of the list.
PushBrickFront(list, o, palette, lo, hi, color) ==
    LET width == hi[1] - lo[1]
        height == hi[2] - lo[2]
        depth == hi[3] - lo[3]
    IN  <<create_brick(o, palette, scales(o), <<width, depth, height>>,
                       <<lo[1], lo[3], lo[2]>>, color)>> \o list

\* save_data.bricks.push(create_brick(opts, &save_data.colors, scales,
\*                                    (width, depth, height), (x, z, y), color))
PushBrick(list, o, palette, lo, hi, color) ==
    LET width == hi[1] - lo[1]
        height == hi[2] - lo[2]
        depth == hi[3] - lo[3]
    IN  Append(list, create_brick(o, palette, scales(o), <<width, depth, height>>,
                                  <<lo[1], lo[3], lo[2]>>, color))

----------------------------------------------------------------------------
(* The volumes and configurations merging is started on.                    *)

\* The colors the voxelizer writes: 2 and 3 match palette index 0, 7 matches
\* palette index 1.
VoxelColors == {2, 3, 7}

\* The largest number of Leaf cells of the arbitrary volumes of side 2.
MaxLeaves == 4

\* Every volume of side 2 with at most MaxLeaves Leaf cells, over two colors
\* of different palette index.
SparseVolumes ==
    UNION {[S -> {2, 7}] : S \in {T \in SUBSET Cells(2) : Cardinality(T) <= MaxLeaves}}

\* Every volume of side 2 without an Empty cell, over the same two colors.
FullVolumes == [Cells(2) -> {2, 7}]

\* The cube of side 4 filled with one color.
UniformCubes == {[c \in Cells(4) |-> k] : k \in VoxelColors}

\* Two Leaf cells adjacent along X in the cube of side 4, of any two colors.
PairVolumes ==
    {[c \in {p, <<p[1] + 1, p[2], p[3]>>} |-> IF c = p THEN k[1] ELSE k[2]] :
        p \in {q \in Cells(4) : q[1] < 3 /\ q[2] \in {0, 3} /\ q[3] \in {0, 3}},
        k \in VoxelColors \X VoxelColors}

\* Three Leaf cells in a row from the origin along one axis in the cube of
\* side 4, of any three colors.
TripleVolumes ==
    {[c \in {[i \in 1..3 |-> IF i = axis THEN j ELSE 0] : j \in 0..2} |-> k[c[axis] + 1]] :
        axis \in 1..3, k \in VoxelColors \X VoxelColors \X VoxelColors}

\* A straight run of Leaf cells of one color along one axis in the cube of
\* side 128: from the origin to the far face, and a run of 101 cells that
\* ends at the far face.
Line(axis, from, to, k) ==
    [c \in {[i \in 1..3 |-> IF i = axis THEN j ELSE 0] : j \in from..to} |-> k]

LineVolumes ==
    {Line(axis, from, 127, 7) : axis \in 1..3, from \in {0, 27}}

\* DragValue::new(&mut self.brick_scale).range(1..=500)
BrickScales == {1, 500}

\* Scales in between that do not divide the budget, and the largest one that
\* leaves a cap above 1.
MidScales == {3, 7, 250}

OptionsOf(bricktypes, brick_scales) ==
    [simplify : BOOLEAN,
     match_brickadia_colorset : BOOLEAN,
     bricktype : bricktypes,
     brick_scale : brick_scales,
     material : {"BMC_Plastic"},
     material_intensity : {5}]

\* let max_merge = 500; (write_brz_data, perform_conversion)
Budget == 500

\* A budget below the scale of every brick but the micro-brick of scale 1:
\* the cap is 2 for that brick and 0 for the others.
SmallBudget == 2

\* The states merging starts in: the small volumes under every option and
\* both budgets, the long runs under the budget of the program and the
\* scales that leave a cap above 1 (caps 500, 166, 100, 71 and 2).
Starts ==
    ([size : {1}, tree : SparseVolumes \cup FullVolumes]
        \cup [size : {2}, tree : UniformCubes \cup PairVolumes \cup TripleVolumes])
      \X ((OptionsOf({"Microbricks"}, BrickScales)
              \cup OptionsOf({"Default", "Tiles"}, {1})) \X {Budget}
          \cup OptionsOf({"Microbricks"}, BrickScales) \X {SmallBudget})
    \cup
    [size : {7}, tree : LineVolumes]
      \X (OptionsOf({"Microbricks", "Default", "Tiles"}, {1}) \X {Budget}
          \cup OptionsOf({"Microbricks"}, MidScales) \X {Budget})

\* No perform_conversion call under way.
PipeIdle ==
    /\ job = <<>>
    /\ ppc = "idle"
    /\ mat_id = 0
    /\ volumes = {}
    /\ material_grids = <<>>
    /\ events = <<>>
    /\ result = "none"
    /\ material_images = <<>>

\* The threads that share the Logger: the UI thread and the conversion
\* threads, each holding a clone of the Arc.
LogThreads == {"ui", "worker1", "worker2"}

\* main(): Logger::new(), then logger.log("obj2brs started ..") on the thread
\* that goes on to run the UI.  A message is the pair of the thread that
\* logged it and its number among that thread's log calls.
LogStart ==
    /\ messages = << <<"ui", 1>> >>
    /\ lock = "free"
    /\ lpc = [t \in LogThreads |-> "idle"]
    /\ logged = [t \in LogThreads |-> IF t = "ui" THEN 1 ELSE 0]
    /\ cloned = <<>>
    /\ snapshots = <<>>

\* No scale_models call under way.
MeshIdle ==
    /\ models = <<>>
    /\ mesh_scale = 1
    /\ spc = "idle"

\* The two path fields of the window.
Fields == {"input_file_path", "output_directory"}

\* Obj2Brs::default(): no picker, "test.obj" and "builds".
PickDefault ==
    /\ path_receiver = [f \in Fields |-> 0]
    /\ pickers = <<>>
    /\ pick_chan = <<>>
    /\ paths = [f \in Fields |-> IF f = "input_file_path" THEN "test.obj" ELSE "builds"]

\* Obj2Brs::default()
UiDefault ==
    /\ missing_resources_dialog = FALSE
    /\ pending_conversion_skip_textures = FALSE
    /\ conversion_in_progress = FALSE
    /\ conversion_done_receiver = 0
    /\ workers = <<>>
    /\ chan = <<>>

Init ==
    /\ input_file = "clean"
    /\ UiDefault
    /\ PipeIdle
    /\ LogStart
    /\ MeshIdle
    /\ PickDefault
    /\ \E s \in Starts :
        /\ size = s[1].size
        /\ octree = s[1].tree
        /\ vol0 = s[1].tree
        /\ opts = s[2][1]
        /\ max_merge = s[2][2]
    /\ pc = "loop"
    /\ bricks = <<>>
    /\ regions = <<>>

----------------------------------------------------------------------------
(* The loops of simplify_lossy and simplify_lossless, one pass per step.    *)

LossyStep ==
    /\ pc = "loop"
    /\ opts.simplify
    /\ HasLeaf(octree)
    /\ \E g \in {LossyGrow(octree, size, MergeCap(opts, max_merge))} : LET
           color == LossyColor(opts, DEFAULT_PALETTE, g.colors)
           cleared == ClearBox(octree, g.seed, g.hi)
       IN  /\ octree' = cleared
           /\ bricks' = PushBrick(bricks, opts, DEFAULT_PALETTE, g.seed, g.hi, color)
           /\ regions' = Append(regions,
                  [lo |-> g.seed, hi |-> g.hi, colors |-> g.colors,
                   matched_color |-> -1, color |-> color,
                   seed_color |-> octree[g.seed], probes |-> g.probes,
                   cleared |-> Cardinality(DOMAIN octree) - Cardinality(DOMAIN cleared)])
    /\ UNCHANGED <<size, opts, max_merge, pc, vol0, uiVars, pipeVars, logVars, meshVars, pickVars>>

\* A loop that gives up after its first pass.
LossyBreakEarly ==
    /\ pc = "loop"
    /\ opts.simplify
    /\ (~HasLeaf(octree) \/ Len(regions) >= 1)
    /\ pc' = "returned"
    /\ UNCHANGED <<size, octree, opts, max_merge, bricks, regions, vol0, uiVars, pipeVars, logVars, meshVars, pickVars>>

\* A break that first emits a brick for the cell it was handed.
LossyBreakEmit ==
    /\ pc = "loop"
    /\ opts.simplify
    /\ ~HasLeaf(octree)
    /\ pc' = "returned"
    /\ bricks' = PushBrick(bricks, opts, DEFAULT_PALETTE, <<0, 0, 0>>, <<1, 1, 1>>,
                           [kind |-> "Index", val |-> 0])
    /\ UNCHANGED <<size, octree, opts, max_merge, regions, vol0, uiVars, pipeVars, logVars, meshVars, pickVars>>

LossyBreak ==
    /\ pc = "loop"
    /\ opts.simplify
    /\ ~HasLeaf(octree)
    /\ pc' = "returned"
    /\ UNCHANGED <<size, octree, opts, max_merge, bricks, regions, vol0, uiVars, pipeVars, logVars, meshVars, pickVars>>

LosslessStep ==
    /\ pc = "loop"
    /\ ~opts.simplify
    /\ HasLeaf(octree)
    /\ \E g \in {LosslessGrow(octree, DEFAULT_PALETTE, size, MergeCap(opts, max_merge))} : LET
           color == LosslessColor(opts, g.matched_color, octree[g.seed])
           cleared == ClearBox(octree, g.seed, g.hi)
       IN  /\ octree' = cleared
           /\ bricks' = PushBrick(bricks, opts, DEFAULT_PALETTE, g.seed, g.hi, color)
           /\ regions' = Append(regions,
                  [lo |-> g.seed, hi |-> g.hi, colors |-> <<>>,
                   matched_color |-> g.matched_color, color |-> color,
                   seed_color |-> octree[g.seed], probes |-> g.probes,
                   cleared |-> Cardinality(DOMAIN octree) - Cardinality(DOMAIN cleared)])
    /\ UNCHANGED <<size, opts, max_merge, pc, vol0, uiVars, pipeVars, logVars, meshVars, pickVars>>

LosslessBreak ==
    /\ pc = "loop"
    /\ ~opts.simplify
    /\ ~HasLeaf(octree)
    /\ pc' = "returned"
    /\ UNCHANGED <<size, octree, opts, max_merge, bricks, regions, vol0, uiVars, pipeVars, logVars, meshVars, pickVars>>

Next ==
    \/ LossyStep
    \/ LossyBreak
    \/ LosslessStep
    \/ LosslessBreak

Spec == Init /\ [][Next]_vars

----------------------------------------------------------------------------
(* create_brick on colors and palettes of its whole domain.  regions keeps *)
(* the arguments of each call.                                              *)

\* The calls one behavior makes.
MaxBricks == 2

\* The largest palette index handed in; the palettes have up to 3 entries.
MaxIndex == 4

BrickColors ==
    {[kind |-> "Index", val |-> i] : i \in 0..MaxIndex}
      \cup {[kind |-> "Unique", val |-> c] : c \in {0, 6}}

Palettes == {<<>>, <<6>>, DEFAULT_PALETTE}

InitBrick ==
    /\ input_file = "clean"
    /\ UiDefault
    /\ PipeIdle
    /\ LogStart
    /\ MeshIdle
    /\ PickDefault
    /\ size = 0
    /\ octree = <<>>
    /\ vol0 = <<>>
    /\ opts \in {o \in OptionsOf({"Microbricks", "Default", "Tiles"}, {1}) :
                    o.simplify /\ o.match_brickadia_colorset}
    /\ max_merge = Budget
    /\ pc = "create_brick"
    /\ bricks = <<>>
    /\ regions = <<>>

CreateBrick ==
    /\ pc = "create_brick"
    /\ Len(bricks) < MaxBricks
    /\ \E color \in BrickColors : \E palette \in Palettes :
          /\ bricks' = Append(bricks, create_brick(opts, palette, scales(opts),
                                                   <<1, 1, 1>>, <<0, 0, 0>>, color))
          /\ regions' = Append(regions, [color |-> color, palette |-> palette])
    /\ UNCHANGED <<size, octree, opts, max_merge, pc, vol0, uiVars, pipeVars, logVars, meshVars, pickVars>>

NextBrick == CreateBrick

SpecBrick == InitBrick /\ [][NextBrick]_vars

----------------------------------------------------------------------------
(* The UI thread and the conversion workers (main.rs).  One step of the UI  *)
(* is one call of update() with at most one user event in the frame.        *)

\* The conversions one session starts.
MaxConversions == 3

\* What validate_obj_resources finds at the input path: no file, a file that
\* does not parse, an OBJ with a missing material file or texture, or an OBJ
\* with every resource in place.
InputFiles == {"absent", "unparseable", "missing_resources", "clean"}

InitUI ==
    /\ input_file \in InputFiles
    /\ UiDefault
    /\ PipeIdle
    /\ LogStart
    /\ MeshIdle
    /\ PickDefault
    /\ size = 0
    /\ octree = <<>>
    /\ vol0 = <<>>
    /\ opts = [simplify |-> FALSE, match_brickadia_colorset |-> FALSE,
               bricktype |-> "Microbricks", brick_scale |-> 1,
               material |-> "BMC_Plastic", material_intensity |-> 5]
    /\ max_merge = Budget
    /\ pc = "idle"
    /\ bricks = <<>>
    /\ regions = <<>>

\* receive_file_dialog_messages, "Check if conversion is done":
\* rx.try_recv().is_ok() on the receiver held.
DoneReceived ==
    /\ conversion_done_receiver # 0
    /\ chan[conversion_done_receiver] = "sent"

ProgressAfterReceive == IF DoneReceived THEN FALSE ELSE conversion_in_progress

ReceiverAfterReceive == IF DoneReceived THEN 0 ELSE conversion_done_receiver

ChanAfterReceive ==
    IF DoneReceived THEN [chan EXCEPT ![conversion_done_receiver] = "received"] ELSE chan

\* A frame that starts no conversion: only the receive takes effect.
ReceiveOnly ==
    /\ conversion_in_progress' = ProgressAfterReceive
    /\ conversion_done_receiver' = ReceiverAfterReceive
    /\ chan' = ChanAfterReceive
    /\ workers' = workers

\* let can_convert = input_file_valid && output_dir_valid && uuid_valid
\*                   && !self.conversion_in_progress;
can_convert(fields_valid) ==
    /\ input_file # "absent"
    /\ fields_valid
    /\ ~ProgressAfterReceive

\* continue_conversion: sets the flag, replaces the receiver held (which
\* drops the one held before) and spawns the worker thread.
continue_conversion(skip_textures) ==
    /\ Len(workers) < MaxConversions
    /\ conversion_in_progress' = TRUE
    /\ conversion_done_receiver' = Len(workers) + 1
    /\ workers' = Append(workers, [state |-> "converting",
                                   skip_textures |-> skip_textures,
                                   result |-> "none"])
    /\ chan' = Append([w \in 1..Len(chan) |->
                          IF w = ReceiverAfterReceive THEN "dropped"
                          ELSE ChanAfterReceive[w]],
                      "empty")

\* update() with no event in the frame.
UpdateIdle ==
    /\ ReceiveOnly
    /\ UNCHANGED <<input_file, missing_resources_dialog,
                   pending_conversion_skip_textures, mergeVars, pipeVars, logVars, meshVars, pickVars>>

\* A Voxelize that starts the conversion whatever validation reported.
UpdateVoxelizeEager ==
    /\ \E fields_valid \in BOOLEAN : can_convert(fields_valid)
    /\ input_file \in {"unparseable", "missing_resources", "clean"}
    /\ continue_conversion(FALSE)
    /\ UNCHANGED <<input_file, missing_resources_dialog,
                   pending_conversion_skip_textures, mergeVars, pipeVars, logVars, meshVars, pickVars>>

\* update() with the Voxelize button clicked: do_conversion.
UpdateVoxelize ==
    /\ \E fields_valid \in BOOLEAN : can_convert(fields_valid)
    /\ \/ /\ input_file = "unparseable"      \* Err(e): message box, return
          /\ ReceiveOnly
          /\ UNCHANGED missing_resources_dialog
       \/ /\ input_file = "missing_resources" \* missing.has_issues()
          /\ missing_resources_dialog' = TRUE
          /\ ReceiveOnly
       \/ /\ input_file = "clean"
          /\ continue_conversion(FALSE)
          /\ UNCHANGED missing_resources_dialog
    /\ UNCHANGED <<input_file, pending_conversion_skip_textures, mergeVars, pipeVars, logVars, meshVars, pickVars>>

\* update() with Yes clicked in the missing-resources dialog.
UpdateYes ==
    /\ missing_resources_dialog
    /\ missing_resources_dialog' = FALSE
    /\ pending_conversion_skip_textures' = TRUE
    /\ continue_conversion(TRUE)
    /\ UNCHANGED <<input_file, mergeVars, pipeVars, logVars, meshVars, pickVars>>

\* A No that clears the dialog and keeps the pending flag.
UpdateNoKeepsPending ==
    /\ missing_resources_dialog
    /\ missing_resources_dialog' = FALSE
    /\ ReceiveOnly
    /\ UNCHANGED <<input_file, pending_conversion_skip_textures,
                   mergeVars, pipeVars, logVars, meshVars, pickVars>>

\* update() with No clicked in the missing-resources dialog.
UpdateNo ==
    /\ missing_resources_dialog
    /\ missing_resources_dialog' = FALSE
    /\ pending_conversion_skip_textures' = FALSE
    /\ ReceiveOnly
    /\ UNCHANGED <<input_file, mergeVars, pipeVars, logVars, meshVars, pickVars>>

\* update() with the missing-resources dialog closed by its window button.
UpdateClose ==
    /\ missing_resources_dialog
    /\ missing_resources_dialog' = FALSE
    /\ pending_conversion_skip_textures' = FALSE
    /\ ReceiveOnly
    /\ UNCHANGED <<input_file, mergeVars, pipeVars, logVars, meshVars, pickVars>>

\* update() with the input path edited in its text field.
UpdateEditPath ==
    /\ \E f \in InputFiles \ {input_file} : input_file' = f
    /\ ReceiveOnly
    /\ UNCHANGED <<missing_resources_dialog, pending_conversion_skip_textures, mergeVars, pipeVars, logVars, meshVars, pickVars>>

\* The worker thread: perform_conversion returns Ok or Err (logged, shown).
WorkerConvert ==
    \E w \in 1..Len(workers) :
        /\ workers[w].state = "converting"
        /\ \E r \in {"ok", "err"} :
              workers' = [workers EXCEPT ![w].state = "converted", ![w].result = r]
        /\ UNCHANGED <<input_file, missing_resources_dialog,
                       pending_conversion_skip_textures, conversion_in_progress,
                       conversion_done_receiver, chan, mergeVars, pipeVars, logVars, meshVars, pickVars>>

\* The worker thread: let _ = tx.send(()); and the thread ends.
WorkerSignal ==
    \E w \in 1..Len(workers) :
        /\ workers[w].state = "converted"
        /\ workers' = [workers EXCEPT ![w].state = "done"]
        /\ chan' = [chan EXCEPT ![w] = IF @ = "empty" THEN "sent" ELSE @]
        /\ UNCHANGED <<input_file, missing_resources_dialog,
                       pending_conversion_skip_textures, conversion_in_progress,
                       conversion_done_receiver, mergeVars, pipeVars, logVars, meshVars, pickVars>>

NextUI ==
    \/ UpdateIdle
    \/ UpdateVoxelize
    \/ UpdateYes
    \/ UpdateNo
    \/ UpdateClose
    \/ UpdateEditPath
    \/ WorkerConvert
    \/ WorkerSignal

SpecUI == InitUI /\ [][NextUI]_vars

\* The scheduling the code relies on: a spawned thread runs to its end, and
\* the UI keeps calling update() (ctx.request_repaint() in every frame).
SpecUIFair ==
    /\ InitUI
    /\ [][NextUI]_vars
    /\ WF_vars(WorkerConvert)
    /\ WF_vars(WorkerSignal)
    /\ WF_vars(UpdateIdle)

----------------------------------------------------------------------------
(* perform_conversion on a worker thread (main.rs), one step per call it    *)
(* makes.  job holds what the call finds on disk and in the options.        *)

\* The materials of the OBJ files considered.
MaxMaterials == 2

\* grid_offset_x, grid_offset_y, grid_offset_z
GridOffsets == {<<0, 0, 0>>, <<10, 20, 30>>}

\* material_images.len(): one image per material, one default image when
\* the OBJ names no material.
ImageCount(j) == IF j.materials = 0 THEN 1 ELSE j.materials

\* What a call can find: the OBJ file (absent, unparseable or loadable), its
\* materials, those that name no texture (diffuse_texture None or empty),
\* those whose texture file cannot be opened, those whose triangles yield
\* voxels, whether the preview and the save can be written.
Jobs ==
    {j \in [obj : {"absent", "unparseable", "ok"},
            materials : 0..MaxMaterials,
            plain : SUBSET (0..(MaxMaterials - 1)),
            bad_texture : SUBSET (0..(MaxMaterials - 1)),
            yields : SUBSET (0..(MaxMaterials - 1)),
            skip_textures : BOOLEAN,
            split_by_material : BOOLEAN,
            preview_ok : BOOLEAN,
            save_ok : BOOLEAN,
            grid_offset : GridOffsets] :
        /\ j.plain \subseteq 0..(j.materials - 1)
        /\ j.bad_texture \subseteq (0..(j.materials - 1)) \ j.plain
        /\ j.yields \subseteq 0..(ImageCount(j) - 1)}

\* A load that opens no texture file.
load_models_without_textures(j) == IF j.obj # "ok" THEN "ObjParseError" ELSE "Ok"

\* tobj::load_obj(..).map_err(ObjParseError)?, then image::open of every
\* texture unless skip_textures: the Err returned, or "Ok".
load_models_and_materials(j) ==
    IF j.obj # "ok" THEN "ObjParseError"
    ELSE IF ~j.skip_textures /\ j.bad_texture # {} THEN "TextureLoadError"
    ELSE "Ok"

\* create_solid_color_texture: RgbaImage::new(1, 1) with the one pixel put.
create_solid_color_texture(pixel) ==
    [width |-> 1, height |-> 1, source |-> "solid", pixel |-> pixel]

\* image::open(&image_path) of material m, into_rgba8: the file's raster.
OpenedTexture(m) ==
    [width |-> 2, height |-> 2, source |-> "file", pixel |-> <<"texture", m>>]

\* The image pushed for material m: its diffuse color and dissolve when
\* textures are skipped or it names none, its texture file otherwise.
MaterialImage(j, m) ==
    IF j.skip_textures \/ m \in j.plain
    THEN create_solid_color_texture(<<"diffuse", m>>)
    ELSE OpenedTexture(m)

\* A loader that opens the texture files although textures are skipped.
MaterialImagesEager(j) ==
    IF j.materials = 0 THEN <<create_solid_color_texture("white")>>
    ELSE [i \in 1..j.materials |->
             IF (i - 1) \in j.plain THEN create_solid_color_texture(<<"diffuse", i - 1>>)
             ELSE OpenedTexture(i - 1)]

\* material_images on Ok: one white pixel when the OBJ has no materials,
\* else one push per material in the order of the materials.
MaterialImages(j) ==
    IF j.materials = 0 THEN <<create_solid_color_texture("white")>>
    ELSE [i \in 1..j.materials |-> MaterialImage(j, i - 1)]

\* voxelize(models, material_images, scale, bricktype, material_filter): the
\* octree of the material, of every material for the filter None (-1).
\* Material m fills the cell (m, 0, 0).
voxelize(j, material_filter) ==
    LET ms == IF material_filter = -1 THEN j.yields ELSE j.yields \cap {material_filter}
    IN  [c \in {<<m, 0, 0>> : m \in ms} |-> 7]

\* simplify_lossy / simplify_lossless run to their return: save_data.bricks.
RECURSIVE Simplified(_, _, _, _, _)
Simplified(tree, n, o, budget, list) ==
    IF ~HasLeaf(tree) THEN list
    ELSE IF o.simplify
    THEN LET g == LossyGrow(tree, n, MergeCap(o, budget))
         IN  Simplified(ClearBox(tree, g.seed, g.hi), n, o, budget,
                        PushBrick(list, o, DEFAULT_PALETTE, g.seed, g.hi,
                                  LossyColor(o, DEFAULT_PALETTE, g.colors)))
    ELSE LET g == LosslessGrow(tree, DEFAULT_PALETTE, n, MergeCap(o, budget))
         IN  Simplified(ClearBox(tree, g.seed, g.hi), n, o, budget,
                        PushBrick(list, o, DEFAULT_PALETTE, g.seed, g.hi,
                                  LosslessColor(o, g.matched_color, tree[g.seed])))

\* A grid placed one offset further.
GridLocationOneBased(offset, m) == [k \in 1..3 |-> offset[k] * (m + 1)]

\* location: grid_offset * (mat_id as f32) on each axis
GridLocation(offset, m) == [k \in 1..3 |-> offset[k] * m]

\* brdb_support::write_brz: Brz::save failing is printed, nothing is returned.
write_brz(j) == "Ok"

\* brdb_support::write_brz_grids, as main.rs uses it: a ConversionResult.
write_brz_grids(j) == IF j.save_ok THEN "Ok" ELSE "SaveWriteError"

\* write_brz_data / write_brz_with_grids after the bricks are assembled: the
\* preview is decoded and encoded (SaveWriteError on failure), then the save
\* is written.
WriteOutcome(j) ==
    IF ~j.preview_ok THEN "SaveWriteError"
    ELSE IF j.split_by_material THEN write_brz_grids(j)
    ELSE write_brz(j)

Event(op, m) == [op |-> op, mat |-> m]

InitPipe ==
    /\ input_file = "clean"
    /\ UiDefault
    /\ LogStart
    /\ MeshIdle
    /\ PickDefault
    /\ size = 2
    /\ octree = <<>>
    /\ vol0 = <<>>
    /\ opts \in {o \in OptionsOf({"Microbricks"}, {1}) : ~o.match_brickadia_colorset}
    /\ max_merge = Budget
    /\ pc = "idle"
    /\ bricks = <<>>
    /\ regions = <<>>
    /\ job \in Jobs
    /\ ppc = "start"
    /\ mat_id = 0
    /\ volumes = {}
    /\ material_grids = <<>>
    /\ events = <<>>
    /\ result = "none"
    /\ material_images = <<>>

\* load_models_and_materials(opts, skip_textures)?, directly in split mode
\* and through generate_octree otherwise.
PLoad ==
    /\ ppc = "start"
    /\ events' = Append(events, Event("load", -1))
    /\ IF load_models_and_materials(job) = "Ok"
       THEN ppc' = "loaded" /\ result' = result
                           /\ material_images' = MaterialImages(job)
       ELSE ppc' = "returned" /\ result' = load_models_and_materials(job)
                              /\ material_images' = material_images
    /\ UNCHANGED <<job, mat_id, volumes, material_grids, mergeVars, uiVars, logVars, meshVars, pickVars>>

\* let mut octree = voxelize_models(.., Some(mat_id)) in the loop, and
\* voxelize_models(.., None) in generate_octree.
PVoxelize ==
    /\ ppc = "loaded"
    /\ \E f \in {IF job.split_by_material THEN mat_id ELSE -1} :
          /\ octree' = voxelize(job, f)
          /\ volumes' = volumes \cup {f}
          /\ events' = Append(events, Event("voxelize", f))
    /\ bricks' = <<>>
    /\ ppc' = "voxelized"
    /\ UNCHANGED <<job, material_images, mat_id, material_grids, result,
                   size, opts, max_merge, pc, regions, vol0, uiVars, logVars, meshVars, pickVars>>

\* simplify_lossy(&mut octree, &mut save_data, opts, max_merge) or
\* simplify_lossless(..), to its return.
PSimplify ==
    /\ ppc = "voxelized"
    /\ bricks' = Simplified(octree, size, opts, max_merge, <<>>)
    /\ octree' = <<>>
    /\ events' = Append(events, Event("simplify", IF job.split_by_material THEN mat_id ELSE -1))
    /\ ppc' = "simplified"
    /\ UNCHANGED <<job, material_images, mat_id, volumes, material_grids, result,
                   size, opts, max_merge, pc, regions, vol0, uiVars, logVars, meshVars, pickVars>>

\* The rest of one iteration of the loop over the materials: the grid is
\* pushed if there are bricks, and the octree goes out of scope.
PGrid ==
    /\ ppc = "simplified"
    /\ job.split_by_material
    /\ material_grids' =
           IF bricks # <<>>
           THEN Append(material_grids,
                       [entity |-> [frozen |-> TRUE,
                                    location |-> GridLocation(job.grid_offset, mat_id)],
                        bricks |-> bricks])
           ELSE material_grids
    /\ volumes' = volumes \ {mat_id}
    /\ events' = Append(events, Event("drop", mat_id))
    /\ mat_id' = mat_id + 1
    /\ ppc' = IF mat_id + 1 < ImageCount(job) THEN "loaded" ELSE "write"
    /\ UNCHANGED <<job, material_images, result, mergeVars, uiVars, logVars, meshVars, pickVars>>

\* write_brz_data after the merge, or write_brz_with_grids, and the return
\* of perform_conversion.
PWrite ==
    /\ \/ ppc = "simplified" /\ ~job.split_by_material
       \/ ppc = "write"
    /\ events' = Append(events, Event("write", -1))
    /\ result' = WriteOutcome(job)
    /\ volumes' = {}
    /\ ppc' = "returned"
    /\ UNCHANGED <<job, material_images, mat_id, material_grids, mergeVars, uiVars, logVars, meshVars, pickVars>>

\* The worker closure after perform_conversion: an Err is logged as
\* "Error: ..." and shown, then the completion is signalled.
PReport ==
    /\ ppc = "returned"
    /\ events' = IF result # "Ok" THEN Append(events, Event("log_error", -1)) ELSE events
    /\ ppc' = "signalled"
    /\ UNCHANGED <<job, material_images, mat_id, volumes, material_grids, result, mergeVars, uiVars, logVars, meshVars, pickVars>>

NextPipe ==
    \/ PLoad
    \/ PVoxelize
    \/ PSimplify
    \/ PGrid
    \/ PWrite
    \/ PReport

SpecPipe == InitPipe /\ [][NextPipe]_vars

----------------------------------------------------------------------------
(* Properties of the mergers.                                               *)

Extent(r, axis) == r.hi[axis] - r.lo[axis]

RegionBox(r) == Box(r.lo, r.hi)

Regions == {regions[i] : i \in 1..Len(regions)}

Covered == UNION {RegionBox(regions[i]) : i \in 1..Len(regions)}

\* C1: when merging has completed, in either mode, the boxes of the emitted
\* regions are pairwise disjoint and their union is exactly the set of cells
\* that were Leaf before merging started.
C1_ExactCover ==
    pc = "returned" =>
        /\ \A i \in 1..Len(regions) : \A j \in (i + 1)..Len(regions) :
               RegionBox(regions[i]) \cap RegionBox(regions[j]) = {}
        /\ Covered = DOMAIN vol0

C1_Witness ==
    /\ pc = "returned"
    /\ opts.simplify
    /\ Len(regions) >= 2
    /\ \E i \in 1..Len(regions) : Cardinality(RegionBox(regions[i])) >= 2
    /\ Cardinality(DOMAIN vol0) < Cardinality(Cells(Pow2(size)))

\* C2: when simplify_lossy or simplify_lossless has returned, the volume
\* holds no Leaf cell.
C2_NoLeafLeft == pc = "returned" => ~HasLeaf(octree)

C2_Witness ==
    /\ pc = "returned"
    /\ Cardinality(DOMAIN vol0) >= 3
    /\ Len(regions) >= 2

\* C3: every pass emits a region of extent at least 1 on each axis whose
\* minimum corner is the seed, the passes never outnumber the cells that were
\* Leaf at the start, and every step of the loop either strictly decreases
\* the number of Leaf cells or ends the loop, under every cap (0 and 1 too).
C3_Terminates ==
    /\ [](/\ \A i \in 1..Len(regions) :
                /\ \A axis \in 1..3 : Extent(regions[i], axis) >= 1
                /\ regions[i].lo \in RegionBox(regions[i])
          /\ Len(regions) + Cardinality(DOMAIN octree) <= Cardinality(DOMAIN vol0))
    /\ [][/\ pc = "loop"
          /\ \/ /\ Cardinality(DOMAIN octree') < Cardinality(DOMAIN octree)
                /\ Len(regions') = Len(regions) + 1
                /\ pc' = "loop"
             \/ /\ pc' = "returned"
                /\ octree' = octree
                /\ regions' = regions]_vars

C3_Witness ==
    /\ pc = "returned"
    /\ MergeCap(opts, max_merge) = 0
    /\ Len(regions) = Cardinality(DOMAIN vol0)
    /\ Len(regions) >= 3

\* C4: in lossless mode every cell inside the box of a region has the matched
\* palette index of the region's seed, which is the reported color when
\* match-to-palette is on.
C4_LosslessFidelity ==
    ~opts.simplify =>
        \A i \in 1..Len(regions) :
            /\ \A c \in RegionBox(regions[i]) :
                  /\ c \in DOMAIN vol0
                  /\ MatchedIndex(DEFAULT_PALETTE, vol0[c]) = regions[i].matched_color
            /\ opts.match_brickadia_colorset =>
                  regions[i].color = [kind |-> "Index", val |-> regions[i].matched_color]

C4_Witness ==
    /\ ~opts.simplify
    /\ opts.match_brickadia_colorset
    /\ \E i \in 1..Len(regions) :
          \E c \in RegionBox(regions[i]) : vol0[c] # vol0[regions[i].lo]
    /\ \E c \in DOMAIN vol0 : \E e \in DOMAIN vol0 :
          MatchedIndex(DEFAULT_PALETTE, vol0[c]) # MatchedIndex(DEFAULT_PALETTE, vol0[e])

\* C6: in lossy mode with the budget 500 no region is longer on any axis
\* than floor(500 / max(scale)); with the scale (5,5,2) of standard and tile
\* bricks that is at most 100 along X and Y and at most 250 along Z.
C6_LossyCap ==
    (opts.simplify /\ max_merge = 500) =>
        \A i \in 1..Len(regions) :
            /\ \A axis \in 1..3 :
                  Extent(regions[i], axis)
                      <= 500 \div Max(Max(scales(opts)[1], scales(opts)[2]), scales(opts)[3])
            /\ scales(opts) = <<5, 5, 2>> =>
                  /\ Extent(regions[i], 1) <= 100
                  /\ Extent(regions[i], 2) <= 100
                  /\ Extent(regions[i], 3) <= 250

C6_Witness ==
    /\ opts.simplify
    /\ max_merge = 500
    /\ scales(opts) = <<5, 5, 2>>
    /\ Len(regions) = 2
    /\ \E axis \in 1..3 : Extent(regions[1], axis) = 100 /\ Extent(regions[2], axis) >= 1

\* C32: in lossless mode with a cap floor(budget / max(scale)) of at least 1
\* no region is longer than the cap on any axis; a run of cells of one
\* palette index that is longer is emitted as several regions.
C32_LosslessCap ==
    (~opts.simplify /\ max_merge \div max_scale(opts) >= 1) =>
        \A i \in 1..Len(regions) : \A axis \in 1..3 :
            Extent(regions[i], axis) <= max_merge \div max_scale(opts)

C32_Witness ==
    /\ ~opts.simplify
    /\ pc = "returned"
    /\ max_merge \div max_scale(opts) = 100
    /\ Cardinality(DOMAIN vol0) = 128
    /\ Len(regions) = 2
    /\ Extent(regions[1], 2) = 100
    /\ Extent(regions[2], 2) = 28
    /\ regions[1].matched_color = regions[2].matched_color

\* C7 as stated: lossless mode on the cube of side 4 filled with one color
\* yields exactly one region, of origin (0,0,0) and extent (4,4,4).
C7_UniformCubeOneRegion ==
    (pc = "returned" /\ ~opts.simplify /\ vol0 \in UniformCubes) =>
        /\ Len(regions) = 1
        /\ regions[1].lo = <<0, 0, 0>>
        /\ regions[1].hi = <<4, 4, 4>>

\* C7 amended: the same, provided the merge cap floor(budget / max(scale))
\* is at least 4.
C7_UniformCubeOneRegionUnderCap ==
    (pc = "returned" /\ ~opts.simplify /\ vol0 \in UniformCubes
        /\ max_merge \div max_scale(opts) >= 4) =>
        /\ Len(regions) = 1
        /\ regions[1].lo = <<0, 0, 0>>
        /\ regions[1].hi = <<4, 4, 4>>

C7_Witness ==
    /\ pc = "returned"
    /\ ~opts.simplify
    /\ vol0 \in UniformCubes
    /\ max_merge \div max_scale(opts) >= 4
    /\ Len(regions) = 1
    /\ Len(bricks) = 1

\* Two Leaf cells, adjacent along X, whose colors match different palette
\* indices, and no other Leaf.
TwoAdjacentX(tree) ==
    \E p \in DOMAIN tree :
        LET q == <<p[1] + 1, p[2], p[3]>>
        IN  /\ DOMAIN tree = {p, q}
            /\ MatchedIndex(DEFAULT_PALETTE, tree[p]) # MatchedIndex(DEFAULT_PALETTE, tree[q])

\* C8: lossless mode on such a volume yields exactly two regions, each of
\* extent (1,1,1).
C8_DifferentIndexNotMerged ==
    (pc = "returned" /\ ~opts.simplify /\ TwoAdjacentX(vol0)) =>
        /\ Len(regions) = 2
        /\ \A i \in 1..2 : \A axis \in 1..3 : Extent(regions[i], axis) = 1

C8_Witness ==
    /\ pc = "returned"
    /\ ~opts.simplify
    /\ TwoAdjacentX(vol0)
    /\ max_merge \div max_scale(opts) >= 2
    /\ Len(bricks) = 2

\* C9: merging a volume without a Leaf cell, in either mode, appends no
\* brick and returns: the break is the step taken from the start.
C9_EmptyVolume ==
    DOMAIN vol0 = {} =>
        /\ bricks = <<>>
        /\ pc = "loop" => ENABLED (LossyBreak \/ LosslessBreak)
        /\ ~ENABLED (LossyStep \/ LosslessStep)

C9_Witness ==
    /\ DOMAIN vol0 = {}
    /\ pc = "returned"
    /\ opts.simplify

\* The extent and the origin of a region in the order create_brick is handed
\* them: (width, depth, height) and (x, z, y).
BrickExtent(r) == <<Extent(r, 1), Extent(r, 3), Extent(r, 2)>>

BrickOrigin(r) == <<r.lo[1], r.lo[3], r.lo[2]>>

\* C12: the brick of every region has, on each axis, the size
\* scale * extent and the position scale * extent + 2 * scale * origin.
C12_BrickGeometry ==
    /\ Len(bricks) = Len(regions)
    /\ \A i \in 1..Len(regions) : \A k \in 1..3 :
          /\ bricks[i].size[k] = scales(opts)[k] * BrickExtent(regions[i])[k]
          /\ bricks[i].position[k] =
                 scales(opts)[k] * BrickExtent(regions[i])[k]
                   + 2 * scales(opts)[k] * BrickOrigin(regions[i])[k]

C12_Witness ==
    /\ opts.bricktype = "Default"
    /\ \E i \in 1..Len(regions) :
          /\ regions[i].lo[1] > 0
          /\ bricks[i].size[1] > 255
          /\ bricks[i].position[1] > bricks[i].size[1]

\* C33: under the budget 500 of the program, with a micro-brick scale in
\* 1..500 or the scale (5,5,2), scale * extent is between 1 and 500 on each
\* axis for every brick in both modes, and the size of the brick is that
\* product: the conversion to u16 changes nothing.
C33_SizeFitsU16 ==
    (max_merge = 500 /\ opts.brick_scale \in 1..500) =>
        /\ Len(bricks) = Len(regions)
        /\ \A i \in 1..Len(regions) : \A k \in 1..3 :
              /\ scales(opts)[k] * BrickExtent(regions[i])[k] \in 1..500
              /\ bricks[i].size[k] \in 1..500
              /\ AsU16(scales(opts)[k] * BrickExtent(regions[i])[k])
                     = scales(opts)[k] * BrickExtent(regions[i])[k]

C33_Witness ==
    /\ max_merge = 500
    /\ opts.brick_scale = 7
    /\ opts.bricktype = "Microbricks"
    /\ Len(bricks) = 2
    /\ \E k \in 1..3 : bricks[1].size[k] = 497 /\ bricks[2].size[k] > 7

\* C34: a region of grid origin (x, y, z) and grid extent (w, h, d) is the
\* brick of size (s0*w, s1*d, s2*h) at (s0*w + 2*s0*x, s1*d + 2*s1*z,
\* s2*h + 2*s2*y): the grid Y and Z axes are exchanged, and under the scale
\* (5,5,2) the factor 2 meets the grid Y extent.
C34_AxesExchanged ==
    \A i \in 1..Len(bricks) :
        \E r \in {regions[i]} : \E s \in {scales(opts)} :
            \E w \in {r.hi[1] - r.lo[1]} : \E h \in {r.hi[2] - r.lo[2]} :
            \E d \in {r.hi[3] - r.lo[3]} :
                /\ bricks[i].size = <<s[1] * w, s[2] * d, s[3] * h>>
                /\ bricks[i].position = <<s[1] * w + 2 * s[1] * r.lo[1],
                                          s[2] * d + 2 * s[2] * r.lo[3],
                                          s[3] * h + 2 * s[3] * r.lo[2]>>
                /\ s = <<5, 5, 2>> => bricks[i].size[3] = 2 * h

C34_Witness ==
    /\ scales(opts) = <<5, 5, 2>>
    /\ Len(bricks) >= 1
    /\ regions[1].lo = <<0, 27, 0>>
    /\ bricks[1].size = <<5, 5, 200>>
    /\ bricks[1].position = <<5, 5, 308>>

\* C14: in lossless mode the upper bounds of every region are at most the
\* side of the volume, so every cell of the region has its coordinates
\* below 2^size.
C14_LosslessInsideVolume ==
    ~opts.simplify =>
        \A i \in 1..Len(regions) :
            /\ \A k \in 1..3 : regions[i].hi[k] <= Pow2(size)
            /\ \A c \in RegionBox(regions[i]) : \A k \in 1..3 : c[k] < Pow2(size)

C14_Witness ==
    /\ ~opts.simplify
    /\ \E i \in 1..Len(regions) :
          /\ regions[i].hi[3] = Pow2(size)
          /\ Extent(regions[i], 3) >= 2
          /\ Extent(regions[i], 3) < max_merge \div max_scale(opts)

\* C15: every coordinate a pass hands to get_mut_or_create has each
\* component in [0, 2^size) in lossy mode and in [0, 2^size] in lossless
\* mode.
C15_ProbesClamped ==
    \A i \in 1..Len(regions) : \A c \in regions[i].probes : \A k \in 1..3 :
        /\ c[k] >= 0
        /\ c[k] <= Pow2(size)
        /\ opts.simplify => c[k] < Pow2(size)

\* What the passes keep to: in both modes each component is in [0, 2^size].
ProbesWithinScanBound ==
    \A i \in 1..Len(regions) : \A c \in regions[i].probes : \A k \in 1..3 :
        c[k] >= 0 /\ c[k] <= Pow2(size)

\* The color of a region when gamma_correct is applied once, to the color
\* that decides the brick color: the average of the samples in lossy mode,
\* the seed's color in lossless mode.
GammaOnceColor(o, palette, rgb) ==
    IF o.match_brickadia_colorset
    THEN [kind |-> "Index",
          val |-> match_hsv_to_colorset(convert_colorset_to_hsv(palette),
                                        rgb2hsv(gamma_correct(rgb)))]
    ELSE [kind |-> "Unique", val |-> gamma_correct(rgb)]

\* C19: the brick color of every region, in either mode and either color
\* mode, is the one obtained by applying gamma correction exactly once, in
\* lossy mode to the average of the samples.
C19_GammaOnce ==
    \A i \in 1..Len(regions) :
        regions[i].color =
            GammaOnceColor(opts, DEFAULT_PALETTE,
                           IF opts.simplify
                           THEN hsv2rgb(hsv_average(regions[i].colors))
                           ELSE regions[i].seed_color)

\* The number of entries of s equal to k.
CountIn(s, k) == Cardinality({i \in 1..Len(s) : s[i] = k})

\* C20: the colors a lossy pass hands to hsv_average are the colors of the
\* cells of the region's final box, each cell once, and no other.
C20_ColorsOfFinalBox ==
    opts.simplify =>
        \A i \in 1..Len(regions) :
            /\ Len(regions[i].colors) = Cardinality(RegionBox(regions[i]))
            /\ \A k \in VoxelColors :
                  CountIn(regions[i].colors, k) =
                      Cardinality({c \in RegionBox(regions[i]) : vol0[c] = k})

\* The volume as the pass of regions[i] found it: the cells that were Leaf
\* at the start and lie in no box of an earlier pass.
TreeAt(i) ==
    [c \in DOMAIN vol0 \ UNION {RegionBox(regions[j]) : j \in 1..(i - 1)} |-> vol0[c]]

\* The acceptance test of the pass of regions[i] on the cell c.
Accepts(i, c) ==
    IF opts.simplify THEN IsLeaf(TreeAt(i), c)
    ELSE LosslessAccept(TreeAt(i), DEFAULT_PALETTE, c, regions[i].matched_color)

\* The pass of regions[i] left the loop of an axis because of its bounds:
\* the cap was reached, or in lossless mode the scan bound len.
AxisBounded(i, k) ==
    \/ Extent(regions[i], k) >= max_merge \div max_scale(opts)
    \/ ~opts.simplify /\ regions[i].hi[k] >= LosslessLen(size)

\* C21: in both modes a slab is taken whole or not at all: every cell of
\* every Y slab over the accepted Z run, and of every X slab over the
\* accepted Y-Z cross-section, passed the acceptance test of its pass, and
\* the Z run accepted first is still the whole run of the seed's column.
C21_SlabAllOrNothing ==
    \A i \in 1..Len(regions) :
        LET lo == regions[i].lo
            hi == regions[i].hi
        IN  /\ \A zz \in lo[3]..(hi[3] - 1) : Accepts(i, <<lo[1], lo[2], zz>>)
            /\ \A yy \in (lo[2] + 1)..(hi[2] - 1) : \A zz \in lo[3]..(hi[3] - 1) :
                  Accepts(i, <<lo[1], yy, zz>>)
            /\ \A xx \in (lo[1] + 1)..(hi[1] - 1) :
                  \A yy \in lo[2]..(hi[2] - 1) : \A zz \in lo[3]..(hi[3] - 1) :
                      Accepts(i, <<xx, yy, zz>>)
            /\ AxisBounded(i, 3) \/ ~Accepts(i, <<lo[1], lo[2], hi[3]>>)

\* A slab with a cell that passes and a cell that does not was rejected.
C21_Witness ==
    \E i \in 1..Len(regions) :
        LET lo == regions[i].lo
            hi == regions[i].hi
        IN  /\ Extent(regions[i], 3) >= 2
            /\ ~AxisBounded(i, 2)
            /\ \E zz \in lo[3]..(hi[3] - 1) : Accepts(i, <<lo[1], hi[2], zz>>)
            /\ \E zz \in lo[3]..(hi[3] - 1) : ~Accepts(i, <<lo[1], hi[2], zz>>)

\* C22: the minimum corner of every region is the seed its pass was handed,
\* every extent is positive, and the extents are maximal in the order Z, Y,
\* X: each loop stopped at its bounds or at a slab with a rejected cell.
C22_GrowthOrder ==
    \A i \in 1..Len(regions) :
        LET lo == regions[i].lo
            hi == regions[i].hi
        IN  /\ lo = get_any_mut_or_create(TreeAt(i), size)
            /\ \A k \in 1..3 : hi[k] > lo[k]
            /\ AxisBounded(i, 3) \/ ~Accepts(i, <<lo[1], lo[2], hi[3]>>)
            /\ \/ AxisBounded(i, 2)
               \/ \E zz \in lo[3]..(hi[3] - 1) : ~Accepts(i, <<lo[1], hi[2], zz>>)
            /\ \/ AxisBounded(i, 1)
               \/ \E yy \in lo[2]..(hi[2] - 1) : \E zz \in lo[3]..(hi[3] - 1) :
                     ~Accepts(i, <<hi[1], yy, zz>>)

C22_Witness ==
    /\ opts.simplify
    /\ \E i \in 1..Len(regions) :
          /\ regions[i].lo # <<0, 0, 0>>
          /\ Extent(regions[i], 2) >= 2
          /\ \A k \in 1..3 : ~AxisBounded(i, k)

\* C23: after every pass each cell of the pass's box is Empty and every
\* other cell has the state it had before: the volume is the initial one
\* without the boxes of the passes so far, the cells that were only probed
\* included.
C23_ClearFrame ==
    /\ octree = TreeAt(Len(regions) + 1)
    /\ \A i \in 1..Len(regions) :
          /\ RegionBox(regions[i]) \cap DOMAIN octree = {}
          /\ regions[i].cleared = Cardinality(RegionBox(regions[i]))

\* A cell of a rejected slab was probed by a pass and is still Leaf.
C23_Witness ==
    /\ Len(regions) = 1
    /\ \E c \in regions[1].probes \ RegionBox(regions[1]) :
          /\ c \in DOMAIN octree
          /\ octree[c] = vol0[c]
    /\ Cardinality(RegionBox(regions[1])) >= 2

----------------------------------------------------------------------------
\* The brick create_brick makes of a region.
BrickOf(r) == PushBrick(<<>>, opts, DEFAULT_PALETTE, r.lo, r.hi, r.color)[1]

\* C24: the list holds one brick per pass, the i-th brick is the brick of
\* the i-th pass and the seeds of the passes come in the order the tree
\* yields them; a pass appends one brick behind the bricks already there and
\* a step that is no pass leaves the list as it is.
C24_AppendOnly ==
    /\ [](/\ Len(bricks) = Len(regions)
          /\ \A i \in 1..Len(regions) :
                /\ bricks[i] = BrickOf(regions[i])
                /\ \A j \in 1..(i - 1) :
                      Key(regions[j].lo, size) < Key(regions[i].lo, size))
    /\ [][IF regions' # regions
          THEN /\ Len(bricks') = Len(bricks) + 1
               /\ SubSeq(bricks', 1, Len(bricks)) = bricks
          ELSE bricks' = bricks]_vars

C24_Witness ==
    /\ pc = "returned"
    /\ Len(bricks) >= 3
    /\ \E i, j \in 1..Len(bricks) : bricks[i].size # bricks[j].size

\* The color the lossless merger reports for a seed of color c: a function
\* of the seed's color and of the option alone.
SeedColor(c) ==
    IF opts.match_brickadia_colorset
    THEN [kind |-> "Index", val |-> MatchedIndex(DEFAULT_PALETTE, c)]
    ELSE [kind |-> "Unique", val |-> gamma_correct(c)]

\* C25: in lossless mode the color of every region is the matched palette
\* index of its seed cell when match-to-palette is on and the seed's own
\* gamma-corrected color otherwise, whatever the other cells of the region
\* hold, and the brick carries that color.
C25_LosslessSeedColor ==
    ~opts.simplify =>
        \A i \in 1..Len(regions) :
            /\ regions[i].color = SeedColor(vol0[regions[i].lo])
            /\ i <= Len(bricks) =>
                  bricks[i].color = brick_color(DEFAULT_PALETTE, SeedColor(vol0[regions[i].lo]))

C25_Witness ==
    /\ ~opts.simplify
    /\ ~opts.match_brickadia_colorset
    /\ \E i \in 1..Len(regions) :
          /\ regions[i].color = [kind |-> "Unique", val |-> gamma_correct(vol0[regions[i].lo])]
          /\ \E c \in RegionBox(regions[i]) :
                gamma_correct(vol0[c]) # gamma_correct(vol0[regions[i].lo])

\* The options with match-to-palette switched.
Flip(o) == [o EXCEPT !.match_brickadia_colorset = ~o.match_brickadia_colorset]

\* The bricks of the run on the same volume, scale and budget with
\* match-to-palette switched.
FlippedRun == Simplified(vol0, size, Flip(opts), max_merge, <<>>)

\* C26: a lossless run that has returned emitted the same number of bricks
\* as the run on the same volume with match-to-palette switched, and each
\* brick differs from the brick at the same place of the other run in its
\* color at most.
C26_GeometryIgnoresPalette ==
    (pc = "returned" /\ ~opts.simplify) =>
        \E other \in {FlippedRun} :
            /\ Len(bricks) = Len(other)
            /\ \A i \in 1..Len(bricks) :
                  [bricks[i] EXCEPT !.color = other[i].color] = other[i]

C26_Witness ==
    /\ pc = "returned"
    /\ ~opts.simplify
    /\ Len(bricks) >= 2
    /\ \E i \in 1..Len(regions) : Cardinality(RegionBox(regions[i])) >= 2
    /\ \E i \in 1..Len(bricks) : bricks[i].color # FlippedRun[i].color

(* Properties of create_brick.                                              *)

\* C13: a brick whose color is a palette index gets the palette entry at
\* that index when the index is below the palette length and white
\* otherwise, in create_brick and in write_brz alike; every call yields a
\* brick.
C13_IndexOrWhite ==
    /\ Len(bricks) = Len(regions)
    /\ \A i \in 1..Len(regions) :
          regions[i].color.kind = "Index" =>
              /\ bricks[i].color =
                     IF regions[i].color.val < Len(regions[i].palette)
                     THEN regions[i].palette[regions[i].color.val + 1]
                     ELSE White
              /\ write_brz_color(regions[i].palette, regions[i].color) = bricks[i].color

C13_Witness ==
    \E i \in 1..Len(regions) : \E j \in 1..Len(regions) :
        /\ regions[i].color.kind = "Index"
        /\ regions[i].color.val >= Len(regions[i].palette)
        /\ bricks[i].color = White
        /\ regions[j].color.kind = "Index"
        /\ regions[j].color.val < Len(regions[j].palette)
        /\ bricks[j].color # White

----------------------------------------------------------------------------
(* Properties of the UI and the workers.                                    *)

\* The workers that have not yet signalled completion.
Running == {w \in 1..Len(workers) : workers[w].state # "done"}

\* C10: at any time at most one conversion worker has been started and has
\* not yet signalled completion.
C10_SingleWorker == Cardinality(Running) <= 1

\* C11: every conversion that was started is eventually reported: the
\* completion message of its worker is received by a later update(), which
\* clears conversion_in_progress and drops the receiver.
C11_EveryConversionReported ==
    \A w \in 1..MaxConversions :
        (Len(workers) >= w) ~> (Len(chan) >= w /\ chan[w] = "received")

\* C31: while a worker has been started and has not signalled completion,
\* conversion_in_progress is true and conversion_done_receiver holds the
\* receiver of that worker's channel.
C31_RunningIsTracked ==
    \A w \in Running :
        /\ conversion_in_progress
        /\ conversion_done_receiver = w


\* One call of update().
UiStep ==
    \/ UpdateIdle
    \/ UpdateVoxelize
    \/ UpdateYes
    \/ UpdateNo
    \/ UpdateClose
    \/ UpdateEditPath

\* C29: a frame in which No is chosen or the dialog is closed clears the
\* dialog and pending_conversion_skip_textures, starts no worker and leaves
\* conversion_in_progress as receive_file_dialog_messages left it (as it was
\* when no completion arrived); and no frame of the UI changes a worker that
\* was started: it is neither stopped nor started again.
C29_DeclineStartsNothing ==
    [][/\ (UpdateNo \/ UpdateClose) =>
             /\ ~missing_resources_dialog'
             /\ ~pending_conversion_skip_textures'
             /\ workers' = workers
             /\ conversion_in_progress' = ProgressAfterReceive
             /\ ~DoneReceived => conversion_in_progress' = conversion_in_progress
       /\ UiStep =>
             /\ Len(workers') >= Len(workers)
             /\ \A w \in 1..Len(workers) : workers'[w] = workers[w]]_vars

C29_Witness ==
    /\ Len(workers) >= 2
    /\ workers[1].skip_textures
    /\ ~pending_conversion_skip_textures
    /\ ~missing_resources_dialog
    /\ conversion_in_progress
    /\ workers[Len(workers)].state = "converting"

\* C30: a frame in which Voxelize is clicked starts a worker, with textures
\* not skipped, exactly when validation finds every resource; on a
\* validation error it starts none and leaves conversion_in_progress, the
\* dialog and the pending flag as they were; on missing resources it starts
\* none and opens the dialog.  A worker that skips textures is started by
\* Yes alone, with the dialog open.
C30_ValidationGatesStart ==
    [][/\ UpdateVoxelize =>
             /\ input_file = "clean" =>
                   /\ workers' = Append(workers, [state |-> "converting",
                                                  skip_textures |-> FALSE,
                                                  result |-> "none"])
                   /\ conversion_in_progress'
                   /\ missing_resources_dialog' = missing_resources_dialog
             /\ input_file = "unparseable" =>
                   /\ workers' = workers
                   /\ conversion_in_progress' = ProgressAfterReceive
                   /\ missing_resources_dialog' = missing_resources_dialog
                   /\ pending_conversion_skip_textures' = pending_conversion_skip_textures
             /\ input_file = "missing_resources" =>
                   /\ workers' = workers
                   /\ conversion_in_progress' = ProgressAfterReceive
                   /\ missing_resources_dialog'
                   /\ pending_conversion_skip_textures' = pending_conversion_skip_textures
       /\ Len(workers') > Len(workers) =>
             \/ UpdateVoxelize /\ input_file = "clean"
             \/ UpdateYes /\ missing_resources_dialog /\ workers'[Len(workers')].skip_textures]_vars

C30_Witness ==
    /\ input_file = "missing_resources"
    /\ missing_resources_dialog
    /\ ~conversion_in_progress
    /\ Len(workers) = 1
    /\ ~workers[1].skip_textures
    /\ workers[1].state = "done"

----------------------------------------------------------------------------
(* Properties of perform_conversion.                                        *)

\* The positions of the events of one kind in the history.
EventsOf(op) == {i \in 1..Len(events) : events[i].op = op}

\* The errors that name a fault of the input files.
InputErrors == {"ObjFileNotFound", "ObjParseError", "MaterialFileNotFound",
                "TextureNotFound", "TextureLoadError"}

\* The input has a fault the conversion meets: the OBJ cannot be loaded, or
\* a texture that is to be loaded cannot be opened.
InputFaulty ==
    \/ job.obj # "ok"
    \/ ~job.skip_textures /\ job.bad_texture # {}

\* C16: an input error is returned before voxelize is called: a conversion
\* of a faulty input returns an input error without calling voxelize, and
\* once voxelize has been called the result is never an input error.
C16_InputErrorsBeforeVoxelize ==
    /\ InputFaulty => EventsOf("voxelize") = {}
    /\ (InputFaulty /\ ppc \in {"returned", "signalled"}) => result \in InputErrors
    /\ EventsOf("voxelize") # {} => result \notin InputErrors

C16_Witness ==
    /\ job.obj = "ok"
    /\ job.bad_texture # {}
    /\ ~job.skip_textures
    /\ job.yields # {}
    /\ result = "TextureLoadError"
    /\ ppc = "signalled"

\* load_models_and_materials has returned Ok.
Loaded == EventsOf("load") # {} /\ result \notin InputErrors

\* C28: after a load that succeeded material_images holds one white 1x1
\* image when the OBJ has no materials and otherwise one image per material,
\* the i-th being that of the i-th material: a 1x1 solid color when textures
\* are skipped or the material names none, its texture otherwise.  A load
\* that meets a texture it cannot open returns TextureLoadError and no
\* image, and with skip_textures no image comes from a file.
C28_OneImagePerMaterial ==
    /\ Loaded =>
          /\ Len(material_images) = IF job.materials = 0 THEN 1 ELSE job.materials
          /\ job.materials = 0 =>
                material_images = <<[width |-> 1, height |-> 1, source |-> "solid",
                                     pixel |-> "white"]>>
          /\ \A m \in 0..(job.materials - 1) :
                /\ material_images[m + 1].pixel[2] = m
                /\ material_images[m + 1].source =
                       IF job.skip_textures \/ m \in job.plain THEN "solid" ELSE "file"
                /\ material_images[m + 1].source = "solid" =>
                       /\ material_images[m + 1].width = 1
                       /\ material_images[m + 1].height = 1
    /\ (EventsOf("load") # {} /\ job.obj = "ok" /\ ~job.skip_textures
            /\ job.bad_texture # {}) =>
          /\ result = "TextureLoadError"
          /\ material_images = <<>>

C28_Witness ==
    /\ Loaded
    /\ job.skip_textures
    /\ job.materials = 2
    /\ job.bad_texture = {1}
    /\ job.plain = {}
    /\ Len(material_images) = 2
    /\ material_images[1] # material_images[2]

\* The save could not be encoded or written.
WriteFailed == EventsOf("write") # {} /\ (~job.preview_ok \/ ~job.save_ok)

\* C17: a failure to encode or write the save makes perform_conversion
\* return the error SaveWriteError, which the worker logs as an "Error: ..."
\* line; it is never reported as success.
C17_WriteFailureSurfaced ==
    WriteFailed =>
        /\ result = "SaveWriteError"
        /\ ppc = "signalled" => EventsOf("log_error") # {}

\* The materials that yield bricks, in ascending order.
YieldingBelow(m) == {k \in job.yields : k < m}

\* C18: in split-by-material mode the materials are voxelized in ascending
\* order of their id, each octree is merged and dropped before the next is
\* built, at most one octree is alive, a material without bricks adds no
\* grid, and each grid is frozen and located at its material id times the
\* grid offset.
C18_SplitSequential ==
    job.split_by_material =>
        /\ Cardinality(volumes) <= 1
        /\ \A i \in EventsOf("voxelize") :
              /\ events[i].mat = Cardinality({h \in EventsOf("voxelize") : h < i})
              /\ \A m \in 0..(events[i].mat - 1) :
                    \E h \in 1..(i - 1) : \E d \in (h + 1)..(i - 1) :
                        /\ events[h] = Event("simplify", m)
                        /\ events[d] = Event("drop", m)
        /\ Len(material_grids) = Cardinality(YieldingBelow(mat_id))
        /\ \A g \in 1..Len(material_grids) :
              /\ material_grids[g].bricks # <<>>
              /\ material_grids[g].entity.frozen
              /\ \E m \in YieldingBelow(mat_id) :
                    /\ Cardinality(YieldingBelow(m)) = g - 1
                    /\ material_grids[g].entity.location =
                           [k \in 1..3 |-> job.grid_offset[k] * m]

C18_Witness ==
    /\ job.split_by_material
    /\ job.materials = 2
    /\ job.yields = {1}
    /\ job.grid_offset # <<0, 0, 0>>
    /\ ppc = "signalled"
    /\ result = "Ok"
    /\ Len(material_grids) = 1

----------------------------------------------------------------------------
(* The Logger under the UI thread and the conversion threads: log and       *)
(* get_messages, one step per lock, body and unlock.                        *)

MaxLogs == 2

MaxSnapshots == 2

\* A push that puts the message in front.
push_front(list, message) == <<message>> \o list

\* messages.push(message)
push(list, message) == Append(list, message)

\* log: self.messages.lock() returns the guard once no thread holds it.
LogLock(t) ==
    /\ lpc[t] = "idle"
    /\ logged[t] < MaxLogs
    /\ lock = "free"
    /\ lock' = t
    /\ logged' = [logged EXCEPT ![t] = @ + 1]
    /\ lpc' = [lpc EXCEPT ![t] = "log_locked"]
    /\ UNCHANGED <<messages, cloned, snapshots, mergeVars, uiVars, pipeVars, meshVars, pickVars>>

\* log: messages.push(message) under the guard.
LogPush(t) ==
    /\ lpc[t] = "log_locked"
    /\ messages' = push(messages, <<t, logged[t]>>)
    /\ lpc' = [lpc EXCEPT ![t] = "log_pushed"]
    /\ UNCHANGED <<lock, logged, cloned, snapshots, mergeVars, uiVars, pipeVars, meshVars, pickVars>>

\* log: the guard goes out of scope.
LogUnlock(t) ==
    /\ lpc[t] = "log_pushed"
    /\ lock' = "free"
    /\ lpc' = [lpc EXCEPT ![t] = "idle"]
    /\ UNCHANGED <<messages, logged, cloned, snapshots, mergeVars, uiVars, pipeVars, meshVars, pickVars>>

\* get_messages on the UI thread: self.messages.lock()
GetLock ==
    /\ lpc["ui"] = "idle"
    /\ Len(snapshots) < MaxSnapshots
    /\ lock = "free"
    /\ lock' = "ui"
    /\ lpc' = [lpc EXCEPT !["ui"] = "get_locked"]
    /\ UNCHANGED <<messages, logged, cloned, snapshots, mergeVars, uiVars, pipeVars, meshVars, pickVars>>

\* get_messages: .map(|m| m.clone()), the guard dropped with the closure.
GetClone ==
    /\ lpc["ui"] = "get_locked"
    /\ cloned' = messages
    /\ lock' = "free"
    /\ lpc' = [lpc EXCEPT !["ui"] = "get_cloned"]
    /\ UNCHANGED <<messages, logged, snapshots, mergeVars, uiVars, pipeVars, meshVars, pickVars>>

\* get_messages returns the clone to update().
GetReturn ==
    /\ lpc["ui"] = "get_cloned"
    /\ snapshots' = Append(snapshots, cloned)
    /\ cloned' = <<>>
    /\ lpc' = [lpc EXCEPT !["ui"] = "idle"]
    /\ UNCHANGED <<messages, lock, logged, mergeVars, uiVars, pipeVars, meshVars, pickVars>>

InitLog ==
    /\ input_file = "clean"
    /\ UiDefault
    /\ PipeIdle
    /\ LogStart
    /\ MeshIdle
    /\ PickDefault
    /\ size = 1
    /\ octree = <<>>
    /\ vol0 = <<>>
    /\ opts \in {o \in OptionsOf({"Microbricks"}, {1}) :
                    ~o.match_brickadia_colorset /\ ~o.simplify}
    /\ max_merge = Budget
    /\ pc = "idle"
    /\ bricks = <<>>
    /\ regions = <<>>

NextLog ==
    \/ \E t \in LogThreads : LogLock(t)
    \/ \E t \in LogThreads : LogPush(t)
    \/ \E t \in LogThreads : LogUnlock(t)
    \/ GetLock
    \/ GetClone
    \/ GetReturn

SpecLog == InitLog /\ [][NextLog]_vars

IsPrefix(s, t) == Len(s) <= Len(t) /\ SubSeq(t, 1, Len(s)) = s

\* C27: the log only grows, by one whole message of the thread that holds
\* the lock at a time; every message a thread has pushed is in the log once;
\* the messages of one thread stand in the order of its log calls; and every
\* snapshot get_messages returned is a prefix of every later one and of the
\* log.
C27_LogAppendOnly ==
    /\ [](/\ \A t \in LogThreads :
                Cardinality({i \in 1..Len(messages) : messages[i][1] = t})
                    = IF lpc[t] = "log_locked" THEN logged[t] - 1 ELSE logged[t]
          /\ \A i, j \in 1..Len(messages) :
                (i < j /\ messages[i][1] = messages[j][1]) => messages[i][2] < messages[j][2]
          /\ \A i, j \in 1..Len(snapshots) :
                i <= j => IsPrefix(snapshots[i], snapshots[j])
          /\ \A i \in 1..Len(snapshots) : IsPrefix(snapshots[i], messages)
          /\ IsPrefix(cloned, messages))
    /\ [][messages' # messages =>
             \E t \in LogThreads :
                /\ lock = t
                /\ lpc[t] = "log_locked"
                /\ messages' = Append(messages, <<t, logged[t]>>)]_vars

C27_Witness ==
    /\ Len(snapshots) = 2
    /\ Len(snapshots[1]) < Len(snapshots[2])
    /\ Len(snapshots[2]) < Len(messages)
    /\ \E i, j \in 1..Len(snapshots[2]) :
          /\ i < j
          /\ snapshots[2][i][1] = "worker1"
          /\ snapshots[2][j][1] = "ui"
    /\ \E i \in 1..Len(messages) : messages[i][1] = "worker2"
    /\ lock = "worker1"

----------------------------------------------------------------------------
(* scale_models (main.rs).  A coordinate is an even integer standing for    *)
(* the f32 of that value, so that the factor 2.5 is exact.                  *)

\* The vertices of the meshes considered: one in the positive octant and one
\* below zero on each axis.
Vertices == {<<2, 2, 2>>, <<-2, 2, 2>>, <<2, -2, 2>>, <<2, 2, -4>>}

MaxVertices == 2

\* mesh.positions of one model.
Meshes == UNION {[1..n -> Vertices] : n \in 0..MaxVertices}

\* models: no model, the first model alone, or the first model and another.
ModelLists ==
    {<<>>} \cup {<<a>> : a \in Meshes} \cup {<<a, b>> : a \in Meshes, b \in Meshes}

\* DragValue::new(&mut self.scale): no range is set.
MeshScales == {-1, 1, 3}

\* p[v] *= scale; p[v + 1] *= yscale * scale; p[v + 2] *= scale;
ScaledVertex(v, scale, bricktype) ==
    <<v[1] * scale,
      IF bricktype = "Microbricks" THEN v[2] * scale ELSE (v[2] * 5 * scale) \div 2,
      v[3] * scale>>

\* The vertices of all models, as pairs of a model and a position in it.
VertexIds(ms) ==
    {q \in (1..Len(ms)) \X (1..MaxVertices) : q[2] <= Len(ms[q[1]])}

\* min_z: positions[2] of the first model, lowered by every p[v + 2].
MinZ(ms) == MinOf({ms[q[1]][q[2]][3] : q \in VertexIds(ms)})

\* "Raise mesh so no vertices are vertically negative": done when there is
\* a first model and it has a vertex, and min_z < 0.0.
Raised(ms) ==
    IF Len(ms) >= 1 /\ Len(ms[1]) >= 1 /\ MinZ(ms) < 0
    THEN [m \in 1..Len(ms) |->
             [v \in 1..Len(ms[m]) |->
                 <<ms[m][v][1], ms[m][v][2], ms[m][v][3] + (0 - MinZ(ms))>>]]
    ELSE ms

InitScale ==
    /\ input_file = "clean"
    /\ UiDefault
    /\ PipeIdle
    /\ LogStart
    /\ size = 1
    /\ octree = <<>>
    /\ vol0 = <<>>
    /\ opts \in {o \in OptionsOf({"Microbricks", "Default"}, {1}) :
                    ~o.match_brickadia_colorset /\ ~o.simplify}
    /\ max_merge = Budget
    /\ pc = "idle"
    /\ bricks = <<>>
    /\ regions = <<>>
    /\ models \in ModelLists
    /\ mesh_scale \in MeshScales
    /\ spc = "start"
    /\ PickDefault

\* The loop over the models that multiplies every position.
ScaleVertices ==
    /\ spc = "start"
    /\ models' = [m \in 1..Len(models) |->
                     [v \in 1..Len(models[m]) |->
                         ScaledVertex(models[m][v], mesh_scale, opts.bricktype)]]
    /\ spc' = "scaled"
    /\ UNCHANGED <<mesh_scale, mergeVars, uiVars, pipeVars, logVars, pickVars>>

\* The rest of scale_models, to its return.
RaiseMesh ==
    /\ spc = "scaled"
    /\ models' = Raised(models)
    /\ spc' = "returned"
    /\ UNCHANGED <<mesh_scale, mergeVars, uiVars, pipeVars, logVars, pickVars>>

NextScale ==
    \/ ScaleVertices
    \/ RaiseMesh

SpecScale == InitScale /\ [][NextScale]_vars

\* C35: when scale_models has returned no vertex has a negative coordinate
\* on any axis.
C35_NoNegativeVertex ==
    spc = "returned" =>
        \A q \in VertexIds(models) : \A k \in 1..3 : models[q[1]][q[2]][k] >= 0

\* What scale_models does ensure: when the first model has a vertex, no
\* vertex of any model is below zero on the third axis.
ThirdAxisRaised ==
    (spc = "returned" /\ Len(models) >= 1 /\ Len(models[1]) >= 1) =>
        \A q \in VertexIds(models) : models[q[1]][q[2]][3] >= 0

----------------------------------------------------------------------------
(* The file pickers of the two path fields (main.rs): one step of the UI is *)
(* one call of update() with at most one user event, a picker thread        *)
(* replies in one step.                                                     *)

\* The picker threads one session spawns.
MaxPickers == 3

\* What a picker sends: a path, a path that is no UTF-8 string, or None when
\* the user cancelled.
PickReplies == {"a", "b", "NonUtf8", "None"}

\* What the user types into a path field.
TypedPaths == {"typed"}

\* rx.try_recv() is Ok on the receiver the field holds.
PickReceived(f) ==
    /\ path_receiver[f] # 0
    /\ pick_chan[path_receiver[f]] = "sent"

\* receive_file_dialog_messages on the two fields: the receiver is cleared
\* on a reply, the path stored when the reply is Some(path) and a string.
PathReceiverAfterReceive ==
    [f \in Fields |-> IF PickReceived(f) THEN 0 ELSE path_receiver[f]]

PathsAfterReceive ==
    [f \in Fields |->
        IF PickReceived(f) /\ pickers[path_receiver[f]].reply \notin {"None", "NonUtf8"}
        THEN pickers[path_receiver[f]].reply
        ELSE paths[f]]

PickChanAfterReceive ==
    [p \in 1..Len(pick_chan) |->
        IF \E f \in Fields : PickReceived(f) /\ path_receiver[f] = p
        THEN "received" ELSE pick_chan[p]]

\* A button that spawns a picker whatever the receiver holds.
FrameFileButtonAlways(f) ==
    /\ Len(pickers) < MaxPickers
    /\ path_receiver' = [PathReceiverAfterReceive EXCEPT ![f] = Len(pickers) + 1]
    /\ pickers' = Append(pickers, [field |-> f, state |-> "picking", reply |-> "none"])
    /\ pick_chan' = Append(PickChanAfterReceive, "empty")
    /\ paths' = PathsAfterReceive
    /\ UNCHANGED <<mergeVars, uiVars, pipeVars, logVars, meshVars>>

\* update() with no event on the path fields.
FrameNoPick ==
    /\ path_receiver' = PathReceiverAfterReceive
    /\ paths' = PathsAfterReceive
    /\ pick_chan' = PickChanAfterReceive
    /\ pickers' = pickers
    /\ UNCHANGED <<mergeVars, uiVars, pipeVars, logVars, meshVars>>

\* update() with the file button of field f clicked:
\* if gui::file_button(ui) && self.<field>_receiver.is_none() { spawn }.
FrameFileButton(f) ==
    /\ Len(pickers) < MaxPickers
    /\ IF PathReceiverAfterReceive[f] = 0
       THEN /\ path_receiver' = [PathReceiverAfterReceive EXCEPT ![f] = Len(pickers) + 1]
            /\ pickers' = Append(pickers, [field |-> f, state |-> "picking",
                                           reply |-> "none"])
            /\ pick_chan' = Append(PickChanAfterReceive, "empty")
       ELSE /\ path_receiver' = PathReceiverAfterReceive
            /\ pickers' = pickers
            /\ pick_chan' = PickChanAfterReceive
    /\ paths' = PathsAfterReceive
    /\ UNCHANGED <<mergeVars, uiVars, pipeVars, logVars, meshVars>>

\* update() with the text of field f edited.
FrameEditPath(f) ==
    /\ \E t \in TypedPaths \ {PathsAfterReceive[f]} :
          paths' = [PathsAfterReceive EXCEPT ![f] = t]
    /\ path_receiver' = PathReceiverAfterReceive
    /\ pick_chan' = PickChanAfterReceive
    /\ pickers' = pickers
    /\ UNCHANGED <<mergeVars, uiVars, pipeVars, logVars, meshVars>>

\* The picker thread: pick_file() / pick_folder() returns, let _ = tx.send(..),
\* and the thread ends.
PickerReply ==
    \E p \in 1..Len(pickers) :
        /\ pickers[p].state = "picking"
        /\ \E r \in PickReplies :
              pickers' = [pickers EXCEPT ![p].state = "done", ![p].reply = r]
        /\ pick_chan' = [pick_chan EXCEPT ![p] = "sent"]
        /\ UNCHANGED <<path_receiver, paths, mergeVars, uiVars, pipeVars, logVars, meshVars>>

InitPick ==
    /\ input_file = "clean"
    /\ UiDefault
    /\ PipeIdle
    /\ LogStart
    /\ MeshIdle
    /\ PickDefault
    /\ size = 1
    /\ octree = <<>>
    /\ vol0 = <<>>
    /\ opts \in {o \in OptionsOf({"Microbricks"}, {1}) :
                    ~o.match_brickadia_colorset /\ ~o.simplify}
    /\ max_merge = Budget
    /\ pc = "idle"
    /\ bricks = <<>>
    /\ regions = <<>>

NextPick ==
    \/ FrameNoPick
    \/ \E f \in Fields : FrameFileButton(f)
    \/ \E f \in Fields : FrameEditPath(f)
    \/ PickerReply

SpecPick == InitPick /\ [][NextPick]_vars

\* One call of update(), as far as the path fields go.
PickFrame ==
    \/ FrameNoPick
    \/ \E f \in Fields : FrameFileButton(f)
    \/ \E f \in Fields : FrameEditPath(f)

\* The pickers of field f that have not replied.
Picking(f) == {p \in 1..Len(pickers) : pickers[p].field = f /\ pickers[p].state = "picking"}

\* C36: each field has at most one picker that has not replied, and its
\* receiver is the one the field holds; a picker is spawned only in a frame
\* in which the field's receiver is None once the replies are received; a
\* call of update() that finds a reply clears the receiver of that picker,
\* stores the path of a Some reply and leaves the path as it was on None,
\* unless the text is edited in that frame.
C36_OnePickerPerField ==
    /\ [](\A f \in Fields :
             /\ Cardinality(Picking(f)) <= 1
             /\ \A p \in Picking(f) : path_receiver[f] = p)
    /\ [][\A f \in Fields :
             /\ (Len(pickers') > Len(pickers) /\ pickers'[Len(pickers')].field = f) =>
                   /\ path_receiver[f] = 0 \/ PickReceived(f)
                   /\ path_receiver'[f] = Len(pickers')
             /\ (PickReceived(f) /\ PickFrame) =>
                   /\ path_receiver'[f] # path_receiver[f]
                   /\ pick_chan'[path_receiver[f]] = "received"
                   /\ (pickers[path_receiver[f]].reply = "None" /\ ~FrameEditPath(f)) =>
                         paths'[f] = paths[f]
                   /\ (pickers[path_receiver[f]].reply \in {"a", "b"} /\ ~FrameEditPath(f)) =>
                         paths'[f] = pickers[path_receiver[f]].reply]_vars

C36_Witness ==
    /\ Len(pickers) = 3
    /\ pickers[1].field = "input_file_path"
    /\ pickers[1].reply = "None"
    /\ pick_chan[1] = "received"
    /\ paths["input_file_path"] = "test.obj"
    /\ pickers[2].field = "input_file_path"
    /\ pickers[2].state = "picking"
    /\ pickers[3].field = "output_directory"
    /\ pickers[3].state = "picking"

====
